---- MODULE Spec2Model ----
(***************************************************************************)
(* A model of the otel package of alipourhabibi/otel-client:               *)
(*   - the provider lifecycle manager (Otel.Setup / Otel.Shutdown),        *)
(*   - the slog bridge (otelHandler.Handle / WithAttrs / WithGroup).       *)
(* The file src/otel/slog.go holds the current revision of both; the       *)
(* fragments in src/otel/otel.go (1-204) and src/unnamed/part_000 are an   *)
(* earlier revision of the same declarations.                              *)
(***************************************************************************)
EXTENDS Integers, Sequences, FiniteSets, TLC

VARIABLES
    o,              \* the Otel struct: its three provider fields (0 is nil)
    providers,      \* the provider objects created so far, by id
    global,         \* the process-wide registrations Setup installs
    setupPc,        \* where the running Setup call stands ("idle": none running)
    setupRet,       \* the value the last Setup call returned
    setupInits,     \* history: the initializers the current/last Setup invoked
    shutdownPc,     \* where the running Shutdown call stands
    errs,           \* Shutdown's local slice of collected errors
    shutdownRet,    \* the value the last Shutdown call returned
    shutdownCalls,  \* history: the provider shutdowns the current/last Shutdown invoked
    opLog,          \* history: the calls made on the manager, in order
    succeeded,      \* history: some Setup call has returned nil
    failedInit,     \* history: some Setup call has returned an error
    oAtCall,        \* the provider fields as they were when a Shutdown racing
                    \* with Setup began (a racy read may still see them)
    panicked,       \* a nil provider handle was dereferenced
    handlers,       \* the otelHandler values created so far, by id
    arrays,         \* the backing arrays of the handlers' attrs slices, by id
    derived,        \* history: how each handler was made (constructor or With call)
    clock,          \* the wall clock, as a tick counter
    sinkLog,        \* history: the calls made on the two sinks, in order
    lastCall,       \* the arguments of the last Handle call
    lastEmit,       \* the log.Record the last Handle passed to otelLogger.Emit
    lastLog,        \* the arguments the last Handle passed to logger.Log
    lastRet,        \* the value the last Handle call returned
    acceptedRequests, \* MetricsRecorder.acceptedRequests: the counter's sum per attribute set
    failedRequests, \* MetricsRecorder.failedRequests: the counter's sum per attribute set
    latency,        \* MetricsRecorder.latency: the values recorded per attribute set
    metricCalls,    \* history: the calls made on the recorder, in order
    spans,          \* the spans started so far, by id: the calls made on each
    outcomeCalls    \* history: the span outcome helper calls made, in order

lifecycleVars == <<o, providers, global, setupPc, setupRet, setupInits,
                   shutdownPc, errs, shutdownRet, shutdownCalls, opLog, succeeded,
                   failedInit, oAtCall, panicked>>

handlerVars == <<handlers, arrays, derived>>

sinkVars == <<clock, sinkLog, lastCall, lastEmit, lastLog, lastRet>>

metricVars == <<acceptedRequests, failedRequests, latency, metricCalls>>

spanVars == <<spans, outcomeCalls>>

utilVars == <<metricVars, spanVars>>

vars == <<lifecycleVars, handlerVars, sinkVars, utilVars>>

(***************************************************************************)
(* Bounds                                                                  *)
(***************************************************************************)
MaxSetups == 2
MaxShutdowns == 2
MaxHandlers == 3
MaxHandles == 2
MaxRecords == 3
MaxSpans == 2
MaxOutcomes == 2

(***************************************************************************)
(* Errors.  A Go error value is nil, a plain error or a join of errors.    *)
(***************************************************************************)
Nil == [kind |-> "nil", msgs |-> <<>>]

Err(msg) == [kind |-> "error", msgs |-> <<msg>>]

RECURSIVE NonNil(_)
NonNil(es) ==
    IF es = <<>> THEN <<>>
    ELSE IF Head(es) = Nil THEN NonNil(Tail(es))
    ELSE <<Head(es)>> \o NonNil(Tail(es))

RECURSIVE Msgs(_)
Msgs(es) == IF es = <<>> THEN <<>> ELSE Head(es).msgs \o Msgs(Tail(es))

\* errors.Join: nil values are discarded; nil when nothing is left.
Join(es) ==
    IF NonNil(es) = <<>> THEN Nil
    ELSE [kind |-> "join", msgs |-> Msgs(NonNil(es))]

Stages == <<"logger", "meter", "tracer">>

StageSet == {"logger", "meter", "tracer"}

\* The errors an initializer can return: the exporter's or the resource's.
InitErrors(stage) ==
    CASE stage = "logger" -> {Err("logger exporter"), Err("logger resource")}
      [] stage = "meter"  -> {Err("meter resource"), Err("meter exporter")}
      [] stage = "tracer" -> {Err("tracer resource"), Err("tracer exporter")}

\* The errors a provider's Shutdown can return (flush failure, deadline).
ShutdownErrors(stage) ==
    CASE stage = "logger" -> {Err("logger shutdown")}
      [] stage = "meter"  -> {Err("meter shutdown")}
      [] stage = "tracer" -> {Err("tracer shutdown")}

(***************************************************************************)
(* Provider objects                                                        *)
(***************************************************************************)
NewProvider(stage) == [kind |-> stage, stopped |-> FALSE, shutdowns |-> 0]

Live(p) == p # 0 /\ ~providers[p].stopped

Busy == setupPc # "idle" \/ shutdownPc # "idle"

NumCalls(op) == Cardinality({i \in DOMAIN opLog : opLog[i] = op})

(***************************************************************************)
(* New: the manager holds no provider.                                     *)
(***************************************************************************)
InitLifecycle ==
    /\ o = [logger |-> 0, meter |-> 0, tracer |-> 0]
    /\ providers = <<>>
    /\ global = [logger |-> 0, meter |-> 0, tracer |-> 0, propagator |-> FALSE]
    /\ setupPc = "idle"
    /\ setupRet = Nil
    /\ setupInits = <<>>
    /\ shutdownPc = "idle"
    /\ errs = <<>>
    /\ shutdownRet = Nil
    /\ shutdownCalls = <<>>
    /\ opLog = <<>>
    /\ succeeded = FALSE
    /\ failedInit = FALSE
    /\ oAtCall = [logger |-> 0, meter |-> 0, tracer |-> 0]
    /\ panicked = FALSE

(***************************************************************************)
(* Setup.  One step per stage: the stage's initializer runs and, when it   *)
(* succeeds, its provider is stored in the struct and registered globally. *)
(* A failing initializer makes Setup return its error at once.             *)
(***************************************************************************)
SetupFail(inits, stage, e) ==
    /\ setupInits' = Append(inits, [stage |-> stage, prov |-> 0, err |-> e])
    /\ setupRet' = e
    /\ setupPc' = "idle"
    /\ failedInit' = TRUE
    /\ UNCHANGED <<o, providers, global, succeeded>>

SetupStore(inits, stage) ==
    LET p == Len(providers) + 1 IN
    /\ providers' = Append(providers, NewProvider(stage))
    /\ o' = [o EXCEPT ![stage] = p]
    /\ global' = IF stage = "tracer"
                 THEN [global EXCEPT !.tracer = p, !.propagator = TRUE]
                 ELSE [global EXCEPT ![stage] = p]
    /\ setupInits' = Append(inits, [stage |-> stage, prov |-> p, err |-> Nil])

\* logger, err := o.initLoggerProvider(ctx); the first step of a Setup call.
SetupLogger ==
    /\ ~Busy
    /\ NumCalls("Setup") < MaxSetups
    /\ opLog' = Append(opLog, "Setup")
    /\ \/ \E e \in InitErrors("logger") : SetupFail(<<>>, "logger", e)
       \/ /\ SetupStore(<<>>, "logger")
          /\ setupPc' = "initMeter"
          /\ UNCHANGED <<setupRet, succeeded, failedInit>>
    /\ UNCHANGED <<shutdownPc, errs, shutdownRet, shutdownCalls, panicked, oAtCall>>
    /\ UNCHANGED <<handlerVars, sinkVars, utilVars>>

\* Mutant of SetupMeter: the initializer's error is not checked
\* (meter, _ := o.initMeterProvider(ctx)), so Setup goes on to the tracer.
SetupMeterIgnoresError ==
    /\ setupPc = "initMeter"
    /\ \/ \E e \in InitErrors("meter") :
            /\ setupInits' = Append(setupInits, [stage |-> "meter", prov |-> 0, err |-> e])
            /\ UNCHANGED <<o, providers, global>>
       \/ SetupStore(setupInits, "meter")
    /\ setupPc' = "initTracer"
    /\ UNCHANGED <<setupRet, succeeded, failedInit>>
    /\ UNCHANGED <<shutdownPc, errs, shutdownRet, shutdownCalls, opLog, panicked, oAtCall>>
    /\ UNCHANGED <<handlerVars, sinkVars, utilVars>>

\* meter, err := o.initMeterProvider(ctx)
SetupMeter ==
    /\ setupPc = "initMeter"
    /\ \/ \E e \in InitErrors("meter") : SetupFail(setupInits, "meter", e)
       \/ /\ SetupStore(setupInits, "meter")
          /\ setupPc' = "initTracer"
          /\ UNCHANGED <<setupRet, succeeded, failedInit>>
    /\ UNCHANGED <<shutdownPc, errs, shutdownRet, shutdownCalls, opLog, panicked, oAtCall>>
    /\ UNCHANGED <<handlerVars, sinkVars, utilVars>>

\* tracer, err := o.initTracerProvider(ctx); then return nil.
SetupTracer ==
    /\ setupPc = "initTracer"
    /\ \/ \E e \in InitErrors("tracer") : SetupFail(setupInits, "tracer", e)
       \/ /\ SetupStore(setupInits, "tracer")
          /\ setupPc' = "idle"
          /\ setupRet' = Nil
          /\ succeeded' = TRUE
          /\ UNCHANGED failedInit
    /\ UNCHANGED <<shutdownPc, errs, shutdownRet, shutdownCalls, opLog, panicked, oAtCall>>
    /\ UNCHANGED <<handlerVars, sinkVars, utilVars>>

(***************************************************************************)
(* Shutdown.  One step per stage: a non-nil handle is shut down and its    *)
(* error, if any, appended to errs; the last step returns the join.        *)
(***************************************************************************)
\* provider.Shutdown(ctx): the provider is stopped whatever error it returns;
\* the method dereferences its receiver.
ProviderShutdown(ps, p) ==
    IF p = 0 THEN ps
    ELSE [ps EXCEPT ![p].stopped = TRUE, ![p].shutdowns = @ + 1]

\* Mutant of ShutdownStage: the stage's error replaces the collected ones
\* (errs = []error{err}) instead of being appended to them.
ShutdownStageOverwrites(es, calls, stage) ==
    IF o[stage] # 0
    THEN \E e \in ShutdownErrors(stage) \cup {Nil} :
            /\ providers' = ProviderShutdown(providers, o[stage])
            /\ panicked' = (panicked \/ o[stage] = 0)
            /\ errs' = IF e # Nil THEN <<e>> ELSE es
            /\ shutdownCalls' = Append(calls, [stage |-> stage, prov |-> o[stage], err |-> e])
    ELSE /\ errs' = es
         /\ shutdownCalls' = calls
         /\ UNCHANGED <<providers, panicked>>

\* if o.<stage> != nil { if err := o.<stage>.Shutdown(ctx); err != nil {
\*     errs = append(errs, err) } }
ShutdownStage(es, calls, stage) ==
    IF o[stage] # 0
    THEN \E e \in ShutdownErrors(stage) \cup {Nil} :
            /\ providers' = ProviderShutdown(providers, o[stage])
            /\ panicked' = (panicked \/ o[stage] = 0)
            /\ errs' = IF e # Nil THEN Append(es, e) ELSE es
            /\ shutdownCalls' = Append(calls, [stage |-> stage, prov |-> o[stage], err |-> e])
    ELSE /\ errs' = es
         /\ shutdownCalls' = calls
         /\ UNCHANGED <<providers, panicked>>

\* var errs []error; if o.logger != nil { ... }: the first step of a call.
ShutdownLogger ==
    /\ ~Busy
    /\ NumCalls("Shutdown") < MaxShutdowns
    /\ opLog' = Append(opLog, "Shutdown")
    /\ ShutdownStage(<<>>, <<>>, "logger")
    /\ shutdownPc' = "meter"
    /\ UNCHANGED <<o, global, setupPc, setupRet, setupInits, succeeded, failedInit,
                   shutdownRet, oAtCall>>
    /\ UNCHANGED <<handlerVars, sinkVars, utilVars>>

\* if o.meter != nil { ... }
ShutdownMeter ==
    /\ shutdownPc = "meter"
    /\ ShutdownStage(errs, shutdownCalls, "meter")
    /\ shutdownPc' = "tracer"
    /\ UNCHANGED <<o, global, setupPc, setupRet, setupInits, succeeded, failedInit,
                   shutdownRet, opLog, oAtCall>>
    /\ UNCHANGED <<handlerVars, sinkVars, utilVars>>

\* if o.tracer != nil { ... }; return errors.Join(errs...)
ShutdownTracer ==
    /\ shutdownPc = "tracer"
    /\ ShutdownStage(errs, shutdownCalls, "tracer")
    /\ shutdownRet' = Join(errs')
    /\ shutdownPc' = "idle"
    /\ UNCHANGED <<o, global, setupPc, setupRet, setupInits, succeeded, failedInit,
                   opLog, oAtCall>>
    /\ UNCHANGED <<handlerVars, sinkVars, utilVars>>

(***************************************************************************)
(* Setup and Shutdown called from two goroutines.  The Otel struct has no  *)
(* lock: the steps of one Setup call and one Shutdown call interleave, and *)
(* Shutdown's unsynchronized read of a field that Setup writes sees the    *)
(* field as it is or as it was when the Shutdown call began.               *)
(***************************************************************************)
\* Setup's first step, whatever Shutdown is doing.
SetupLoggerRacing ==
    /\ setupPc = "idle"
    /\ NumCalls("Setup") = 0
    /\ opLog' = Append(opLog, "Setup")
    /\ \/ \E e \in InitErrors("logger") : SetupFail(<<>>, "logger", e)
       \/ /\ SetupStore(<<>>, "logger")
          /\ setupPc' = "initMeter"
          /\ UNCHANGED <<setupRet, succeeded, failedInit>>
    /\ UNCHANGED <<shutdownPc, errs, shutdownRet, shutdownCalls, panicked, oAtCall>>
    /\ UNCHANGED <<handlerVars, sinkVars, utilVars>>

\* if o.<stage> != nil { ... o.<stage>.Shutdown(ctx) ... } with a racy read
\* of o.<stage>.
ShutdownStageRacing(es, calls, base, stage) ==
    \E v \in {o[stage], base[stage]} :
        IF v # 0
        THEN \E e \in ShutdownErrors(stage) \cup {Nil} :
                /\ providers' = ProviderShutdown(providers, v)
                /\ errs' = IF e # Nil THEN Append(es, e) ELSE es
                /\ shutdownCalls' = Append(calls, [stage |-> stage, prov |-> v, err |-> e])
                /\ UNCHANGED panicked
        ELSE /\ errs' = es
             /\ shutdownCalls' = calls
             /\ UNCHANGED <<providers, panicked>>

\* Shutdown's first step, whatever Setup is doing.
ShutdownLoggerRacing ==
    /\ shutdownPc = "idle"
    /\ NumCalls("Shutdown") = 0
    /\ opLog' = Append(opLog, "Shutdown")
    /\ oAtCall' = o
    /\ ShutdownStageRacing(<<>>, <<>>, o, "logger")
    /\ shutdownPc' = "meter"
    /\ UNCHANGED <<o, global, setupPc, setupRet, setupInits, succeeded, failedInit,
                   shutdownRet>>
    /\ UNCHANGED <<handlerVars, sinkVars, utilVars>>

ShutdownMeterRacing ==
    /\ shutdownPc = "meter"
    /\ ShutdownStageRacing(errs, shutdownCalls, oAtCall, "meter")
    /\ shutdownPc' = "tracer"
    /\ UNCHANGED <<o, global, setupPc, setupRet, setupInits, succeeded, failedInit,
                   shutdownRet, opLog, oAtCall>>
    /\ UNCHANGED <<handlerVars, sinkVars, utilVars>>

ShutdownTracerRacing ==
    /\ shutdownPc = "tracer"
    /\ ShutdownStageRacing(errs, shutdownCalls, oAtCall, "tracer")
    /\ shutdownRet' = Join(errs')
    /\ shutdownPc' = "idle"
    /\ UNCHANGED <<o, global, setupPc, setupRet, setupInits, succeeded, failedInit,
                   opLog, oAtCall>>
    /\ UNCHANGED <<handlerVars, sinkVars, utilVars>>

(***************************************************************************)
(* The slog bridge: values, attributes, slices                             *)
(***************************************************************************)
\* slog.Value of kind String or Int64.
String(x) == [kind |-> "string", s |-> x, n |-> 0]

Int64(x) == [kind |-> "int", s |-> "", n |-> x]

\* slog.Attr
Attr(k, v) == [key |-> k, value |-> v]

\* Value.String(): the string itself, or the decimal form of the integer.
ValueString(v) == IF v.kind = "string" THEN v.s ELSE ToString(v.n)

\* Value.Any(): the underlying Go value.
ValueAny(v) == v

\* log.String(key, value): a remote attribute, always of string kind.
KV(k, x) == [key |-> k, value |-> x]

\* A Go slice: a backing array (0: none) and a length.
NilSlice == [arr |-> 0, len |-> 0]

SliceElems(as, sl) == IF sl.arr = 0 THEN <<>> ELSE SubSeq(as[sl.arr], 1, sl.len)

\* The attributes WithAttrs is called with.
AttrInputs ==
    { <<Attr("k", String("a"))>>,
      <<Attr("k", Int64(7)), Attr("trace_id", String("x"))>> }

\* The names WithGroup is called with.
GroupNames == {"", "g1", "g2"}

\* slog levels, and the log severities they map to.
LevelDebug == -4
LevelInfo == 0
LevelWarn == 4
LevelError == 8
SeverityDebug == 5
SeverityInfo == 9
SeverityWarn == 13
SeverityError == 17

Levels == {LevelDebug, LevelInfo, 2, LevelWarn, LevelError, 12}

\* The records Handle is called with: r.Level and the record's own attributes.
RecordAttrInputs ==
    { <<>>,
      <<Attr("k", Int64(5)), Attr("span_id", String("u"))>> }

Messages == {"hello"}

\* Trace and span identifiers are byte strings.
TraceA == <<1, 171>>
SpanA == <<255>>

\* What trace.SpanFromContext(ctx) finds: no span, a span that is not
\* recording (sampled out), or a recording span.
NoSpan == [present |-> FALSE, recording |-> FALSE, traceID |-> <<>>, spanID |-> <<>>]

Contexts ==
    { NoSpan,
      [present |-> TRUE, recording |-> FALSE, traceID |-> TraceA, spanID |-> SpanA],
      [present |-> TRUE, recording |-> TRUE, traceID |-> TraceA, spanID |-> SpanA] }

\* What becomes of a record given to otelLogger.Emit: the logger's provider
\* takes it, or loses it (provider shut down, exporter failing).  Emit has no
\* result, so Handle cannot tell.
EmitOutcomes == {"delivered", "failed"}

\* What runtime.Caller(3) reports.
Callers ==
    { [ok |-> FALSE, file |-> "", line |-> 0],
      [ok |-> TRUE, file |-> "main.go", line |-> 42] }

HexDigits ==
    <<"0", "1", "2", "3", "4", "5", "6", "7", "8", "9", "a", "b", "c", "d", "e", "f">>

HexByte(b) == HexDigits[(b \div 16) + 1] \o HexDigits[(b % 16) + 1]

\* TraceID.String() / SpanID.String(): lower-case hexadecimal.
RECURSIVE HexString(_)
HexString(bs) == IF bs = <<>> THEN "" ELSE HexByte(Head(bs)) \o HexString(Tail(bs))

\* span.IsRecording(); the no-op span of a context without a span is not.
IsRecording(ctx) == ctx.present /\ ctx.recording

\* Severity.String()
SeverityText(sev) ==
    CASE sev = SeverityDebug -> "DEBUG"
      [] sev = SeverityInfo  -> "INFO"
      [] sev = SeverityWarn  -> "WARN"
      [] sev = SeverityError -> "ERROR"

\* Mutant of MapSeverity: levels are mapped by range, as slog prints them.
MapSeverityByRange(level) ==
    CASE level < LevelInfo  -> SeverityDebug
      [] level < LevelWarn  -> SeverityInfo
      [] level < LevelError -> SeverityWarn
      [] OTHER              -> SeverityError

\* The switch on r.Level; every other level keeps the default.
MapSeverity(level) ==
    CASE level = LevelDebug -> SeverityDebug
      [] level = LevelWarn  -> SeverityWarn
      [] level = LevelError -> SeverityError
      [] OTHER              -> SeverityInfo

NoCall ==
    [h |-> 0, level |-> 0, msg |-> "", time |-> 0, attrs |-> <<>>,
     ctx |-> NoSpan, caller |-> [ok |-> FALSE, file |-> "", line |-> 0],
     emit |-> "delivered"]

NoRecord ==
    [severity |-> 0, severityText |-> "", timestamp |-> 0, observed |-> 0,
     body |-> "", attrs |-> <<>>]

NoLog == [level |-> 0, msg |-> "", args |-> <<>>]

\* NewOtelHandler: one handler without attributes and without group.
InitHandlers ==
    /\ handlers = <<[attrs |-> NilSlice, group |-> ""]>>
    /\ arrays = <<>>
    /\ derived = <<[op |-> "New", parent |-> 0, attrs |-> <<>>, name |-> ""]>>
    /\ clock = 0
    /\ sinkLog = <<>>
    /\ lastCall = NoCall
    /\ lastEmit = NoRecord
    /\ lastLog = NoLog
    /\ lastRet = Nil

(***************************************************************************)
(* WithAttrs / WithGroup                                                   *)
(***************************************************************************)
\* append(s, xs...) onto a slice no other slice shares: a nil slice stays nil
\* when nothing is appended, otherwise the result has an array of its own.
\* Gives <<the arrays, the resulting slice>>.
AppendFresh(as, elems) ==
    IF elems = <<>> THEN <<as, NilSlice>>
    ELSE <<Append(as, elems), [arr |-> Len(as) + 1, len |-> Len(elems)]>>

\* Mutant of WithAttrs: the receiver's own slice is extended
\* (h.attrs = append(h.attrs, attrs...)) and shared with the new handler.
WithAttrsInPlace(h, attrs) ==
    LET res == AppendFresh(arrays, SliceElems(arrays, handlers[h].attrs) \o attrs) IN
    /\ arrays' = res[1]
    /\ handlers' = Append([handlers EXCEPT ![h].attrs = res[2]],
                          [attrs |-> res[2], group |-> handlers[h].group])
    /\ derived' = Append(derived, [op |-> "WithAttrs", parent |-> h,
                                   attrs |-> attrs, name |-> ""])

\* Mutant of WithAttrs: an accumulated attribute is dropped when a new
\* attribute has its key (merge by key, the new value winning).
WithAttrsOverwrites(h, attrs) ==
    LET old == SliceElems(arrays, handlers[h].attrs)
        kept == SelectSeq(old, LAMBDA a : \A i \in DOMAIN attrs : attrs[i].key # a.key)
        res == AppendFresh(arrays, kept \o attrs)
    IN
    /\ arrays' = res[1]
    /\ handlers' = Append(handlers, [attrs |-> res[2], group |-> handlers[h].group])
    /\ derived' = Append(derived, [op |-> "WithAttrs", parent |-> h,
                                   attrs |-> attrs, name |-> ""])

\* newAttrs := append([]slog.Attr(nil), h.attrs...)
\* newAttrs = append(newAttrs, attrs...)
\* return &otelHandler{attrs: newAttrs, group: h.group, ...}
WithAttrs(h, attrs) ==
    LET res == AppendFresh(arrays, SliceElems(arrays, handlers[h].attrs) \o attrs) IN
    /\ arrays' = res[1]
    /\ handlers' = Append(handlers, [attrs |-> res[2], group |-> handlers[h].group])
    /\ derived' = Append(derived, [op |-> "WithAttrs", parent |-> h,
                                   attrs |-> attrs, name |-> ""])

\* Mutant of WithGroup: the new name is nested under the current group.
WithGroupNests(h, name) ==
    /\ handlers' = Append(handlers,
            [attrs |-> handlers[h].attrs,
             group |-> IF handlers[h].group = "" THEN name
                       ELSE handlers[h].group \o "." \o name])
    /\ derived' = Append(derived, [op |-> "WithGroup", parent |-> h,
                                   attrs |-> <<>>, name |-> name])
    /\ UNCHANGED arrays

\* return &otelHandler{attrs: h.attrs, group: name, ...}: the slice is shared.
WithGroup(h, name) ==
    /\ handlers' = Append(handlers, [attrs |-> handlers[h].attrs, group |-> name])
    /\ derived' = Append(derived, [op |-> "WithGroup", parent |-> h,
                                   attrs |-> <<>>, name |-> name])
    /\ UNCHANGED arrays

DeriveWithAttrs ==
    /\ Len(handlers) < MaxHandlers
    /\ \E h \in DOMAIN handlers : \E attrs \in AttrInputs : WithAttrs(h, attrs)
    /\ UNCHANGED <<lifecycleVars, sinkVars, utilVars>>

DeriveWithGroup ==
    /\ Len(handlers) < MaxHandlers
    /\ \E h \in DOMAIN handlers : \E name \in GroupNames : WithGroup(h, name)
    /\ UNCHANGED <<lifecycleVars, sinkVars, utilVars>>

(***************************************************************************)
(* Handle                                                                  *)
(***************************************************************************)
\* attrs = append(attrs, log.String(a.Key, a.Value.String())) over a list
RemoteAttrs(as) == [i \in 1..Len(as) |-> KV(as[i].key, ValueString(as[i].value))]

\* logAttrs = append(logAttrs, a.Key, a.Value.Any()) over a list
RECURSIVE LocalArgs(_)
LocalArgs(as) ==
    IF as = <<>> THEN <<>>
    ELSE <<String(Head(as).key), ValueAny(Head(as).value)>> \o LocalArgs(Tail(as))

\* if h.group != "" { ... "group", h.group }
GroupAttrs(group) == IF group # "" THEN <<Attr("group", String(group))>> ELSE <<>>

\* Mutant of SpanAttrs: any span found in the context is used, recording or not.
SpanAttrsOfAnySpan(ctx) ==
    IF ctx.present
    THEN <<Attr("trace_id", String(HexString(ctx.traceID))),
           Attr("span_id", String(HexString(ctx.spanID)))>>
    ELSE <<>>

\* if span := trace.SpanFromContext(ctx); span.IsRecording() { ... }
SpanAttrs(ctx) ==
    IF IsRecording(ctx)
    THEN <<Attr("trace_id", String(HexString(ctx.traceID))),
           Attr("span_id", String(HexString(ctx.spanID)))>>
    ELSE <<>>

\* if pc, file, line, ok := runtime.Caller(3); ok { ... }
SourceAttrs(caller) ==
    IF caller.ok
    THEN <<Attr("source", String(caller.file \o ":" \o ToString(caller.line)))>>
    ELSE <<>>

\* Everything Handle appends, in the order it appends it.
MergedAttrs(hd, as, r) ==
    SliceElems(as, hd.attrs) \o r.attrs \o GroupAttrs(hd.group)
        \o SpanAttrs(r.ctx) \o SourceAttrs(r.caller)

\* The log.Record Handle builds.
LogRecord(hd, as, r, now) ==
    [severity |-> MapSeverity(r.level),
     severityText |-> SeverityText(MapSeverity(r.level)),
     timestamp |-> r.time,
     observed |-> now,
     body |-> r.msg,
     attrs |-> RemoteAttrs(MergedAttrs(hd, as, r))]

\* Mutant of Handle: the local logger is written before the remote emit.
HandleLocalFirst(r) ==
    LET hd == handlers[r.h]
        now == r.time + 1
    IN
    /\ lastEmit' = LogRecord(hd, arrays, r, now)
    /\ lastLog' = [level |-> r.level, msg |-> r.msg,
                   args |-> LocalArgs(MergedAttrs(hd, arrays, r))]
    /\ sinkLog' = sinkLog \o <<[sink |-> "local", time |-> r.time],
                               [sink |-> "remote", time |-> r.time]>>
    /\ lastCall' = r
    /\ lastRet' = Nil
    /\ clock' = now

\* Mutant of Handle: a failed emit ends the call with an error, before the
\* local logger is written.
HandleStopsOnEmitFailure(r) ==
    LET hd == handlers[r.h]
        now == r.time + 1
        ok == r.emit = "delivered"
    IN
    /\ lastEmit' = LogRecord(hd, arrays, r, now)
    /\ lastLog' = IF ok THEN [level |-> r.level, msg |-> r.msg,
                              args |-> LocalArgs(MergedAttrs(hd, arrays, r))]
                  ELSE lastLog
    /\ sinkLog' = sinkLog \o <<[sink |-> "remote", time |-> r.time]>>
                     \o (IF ok THEN <<[sink |-> "local", time |-> r.time]>> ELSE <<>>)
    /\ lastCall' = r
    /\ lastRet' = IF ok THEN Nil ELSE Err("emit failed")
    /\ clock' = now

\* Mutant of Handle: the span's identifiers are given to the remote record
\* only, and the local logger goes without them.
HandleLocalWithoutSpan(r) ==
    LET hd == handlers[r.h]
        now == r.time + 1
    IN
    /\ lastEmit' = LogRecord(hd, arrays, r, now)
    /\ lastLog' = [level |-> r.level, msg |-> r.msg,
                   args |-> LocalArgs(SliceElems(arrays, hd.attrs) \o r.attrs
                                \o GroupAttrs(hd.group) \o SourceAttrs(r.caller))]
    /\ sinkLog' = sinkLog \o <<[sink |-> "remote", time |-> r.time],
                               [sink |-> "local", time |-> r.time]>>
    /\ lastCall' = r
    /\ lastRet' = Nil
    /\ clock' = now

\* h.otelLogger.Emit(ctx, logRecord), then h.logger.Log(ctx, r.Level,
\* r.Message, logAttrs...), then return nil.  Emit returns nothing: what
\* became of the record (r.emit) has no part in what Handle does next.
Handle(r) ==
    LET hd == handlers[r.h]
        now == r.time + 1
    IN
    /\ lastEmit' = LogRecord(hd, arrays, r, now)
    /\ lastLog' = [level |-> r.level, msg |-> r.msg,
                   args |-> LocalArgs(MergedAttrs(hd, arrays, r))]
    /\ sinkLog' = sinkLog \o <<[sink |-> "remote", time |-> r.time],
                               [sink |-> "local", time |-> r.time]>>
    /\ lastCall' = r
    /\ lastRet' = Nil
    /\ clock' = now

\* The calls Handle is tried with: every level on a plain record, and every
\* combination of record attributes and span on an Info record, with and
\* without a resolvable call site.
HandleInputs ==
    [level : Levels, msg : Messages, attrs : {<<>>}, ctx : {NoSpan},
     caller : {c \in Callers : c.ok}, emit : {"delivered"}]
    \cup [level : {LevelInfo}, msg : Messages, attrs : RecordAttrInputs,
          ctx : Contexts, caller : {c \in Callers : c.ok}, emit : {"delivered"}]
    \cup [level : {LevelInfo}, msg : Messages, attrs : RecordAttrInputs,
          ctx : {NoSpan}, caller : Callers, emit : {"delivered"}]
    \cup [level : {LevelError}, msg : Messages, attrs : {<<>>},
          ctx : {NoSpan}, caller : {c \in Callers : c.ok}, emit : EmitOutcomes]

\* A record is made with the current time and handed to a handler.
HandleRecord ==
    /\ Len(sinkLog) < 2 * MaxHandles
    /\ \E h \in DOMAIN handlers, in \in HandleInputs :
          Handle([h |-> h, level |-> in.level, msg |-> in.msg, time |-> clock + 1,
                  attrs |-> in.attrs, ctx |-> in.ctx, caller |-> in.caller,
                  emit |-> in.emit])
    /\ UNCHANGED <<lifecycleVars, handlerVars, utilVars>>

(***************************************************************************)
(* The metrics recorder (utils.go).  An instrument keeps one data point    *)
(* per attribute set: a counter its sum, a histogram its recorded values.  *)
(***************************************************************************)
\* attribute.String(key, value)
KeyValue(k, v) == [key |-> k, value |-> v]

\* The attributes a Record call is given.
MetricAttrInputs ==
    { <<>>,
      <<KeyValue("route", "/a")>>,
      <<KeyValue("route", "/b"), KeyValue("route", "/a")>> }

\* metric.WithAttributes(attributes...): the attribute set of a list; of
\* several attributes with one key the last is kept.
AttrSetOf(attributes) ==
    { attributes[i] : i \in { j \in DOMAIN attributes :
                                \A k \in DOMAIN attributes :
                                    k > j => attributes[k].key # attributes[j].key } }

MetricAttrSets == { AttrSetOf(a) : a \in MetricAttrInputs }

\* The durations RecordLatency is given, in nanoseconds.
Durations == {250000000, 1500000000}

\* Duration.Seconds(): whole seconds plus the remaining nanoseconds over 1e9.
Seconds(d) == [sec |-> d \div 1000000000, nsec |-> d % 1000000000]

\* NewMetricsRecorder returned a recorder: three instruments without data.
InitRecorder ==
    /\ acceptedRequests = [a \in MetricAttrSets |-> 0]
    /\ failedRequests = [a \in MetricAttrSets |-> 0]
    /\ latency = [a \in MetricAttrSets |-> <<>>]
    /\ metricCalls = <<>>

\* Int64Counter.Add(ctx, incr, options...)
Add(counter, incr, set) == [counter EXCEPT ![set] = @ + incr]

\* Float64Histogram.Record(ctx, value, options...)
Record(histogram, value, set) == [histogram EXCEPT ![set] = Append(@, value)]

\* m.acceptedRequests.Add(ctx, 1, metric.WithAttributes(attributes...))
RecordAcceptedRequest(attributes) ==
    /\ acceptedRequests' = Add(acceptedRequests, 1, AttrSetOf(attributes))
    /\ UNCHANGED <<failedRequests, latency>>

\* Mutant of RecordFailedRequest: the failure is counted on the accepted
\* counter.
RecordFailedRequestOnAccepted(attributes) ==
    /\ acceptedRequests' = Add(acceptedRequests, 1, AttrSetOf(attributes))
    /\ UNCHANGED <<failedRequests, latency>>

\* m.failedRequests.Add(ctx, 1, metric.WithAttributes(attributes...))
RecordFailedRequest(attributes) ==
    /\ failedRequests' = Add(failedRequests, 1, AttrSetOf(attributes))
    /\ UNCHANGED <<acceptedRequests, latency>>

\* m.latency.Record(ctx, duration.Seconds(), metric.WithAttributes(attributes...))
RecordLatency(duration, attributes) ==
    /\ latency' = Record(latency, Seconds(duration), AttrSetOf(attributes))
    /\ UNCHANGED <<acceptedRequests, failedRequests>>

MetricCall(op, duration, attributes) ==
    [op |-> op, duration |-> duration, attributes |-> attributes]

CallRecordAcceptedRequest ==
    /\ Len(metricCalls) < MaxRecords
    /\ \E a \in MetricAttrInputs :
          /\ RecordAcceptedRequest(a)
          /\ metricCalls' = Append(metricCalls, MetricCall("RecordAcceptedRequest", 0, a))
    /\ UNCHANGED <<lifecycleVars, handlerVars, sinkVars, spanVars>>

CallRecordFailedRequest ==
    /\ Len(metricCalls) < MaxRecords
    /\ \E a \in MetricAttrInputs :
          /\ RecordFailedRequest(a)
          /\ metricCalls' = Append(metricCalls, MetricCall("RecordFailedRequest", 0, a))
    /\ UNCHANGED <<lifecycleVars, handlerVars, sinkVars, spanVars>>

CallRecordLatency ==
    /\ Len(metricCalls) < MaxRecords
    /\ \E a \in MetricAttrInputs, d \in Durations :
          /\ RecordLatency(d, a)
          /\ metricCalls' = Append(metricCalls, MetricCall("RecordLatency", d, a))
    /\ UNCHANGED <<lifecycleVars, handlerVars, sinkVars, spanVars>>

(***************************************************************************)
(* The span outcome helpers (utils.go).  A span is seen through the        *)
(* trace.Span interface: the model keeps the calls made on it, in order.   *)
(***************************************************************************)
SpanNames == {"charge"}

ServiceNames == {"billing", ""}

\* The errors RecordTraceError is given: a plain error and a join of two.
SpanErrors == {Err("boom"), Join(<<Err("boom"), Err("late")>>)}

RECURSIVE JoinLines(_)
JoinLines(msgs) ==
    IF Len(msgs) = 1 THEN Head(msgs)
    ELSE Head(msgs) \o "\n" \o JoinLines(Tail(msgs))

\* err.Error(): the message; of a join, its messages one per line.
ErrorText(err) == JoinLines(err.msgs)

\* One call of a method of trace.Span.
SpanCall(method, code, text, attrs, err) ==
    [method |-> method, code |-> code, text |-> text, attrs |-> attrs, err |-> err]

InitSpans ==
    /\ spans = <<>>
    /\ outcomeCalls = <<>>

\* tracer.Start(ctx, name): a new span, nothing called on it yet.
StartSpan ==
    /\ Len(spans) < MaxSpans
    /\ \E name \in SpanNames : spans' = Append(spans, [name |-> name, calls |-> <<>>])
    /\ UNCHANGED outcomeCalls
    /\ UNCHANGED <<lifecycleVars, handlerVars, sinkVars, metricVars>>

\* span.RecordError(err); span.SetStatus(codes.Error, err.Error());
\* span.AddEvent(serviceName, trace.WithAttributes(attribute.String("error", err.Error())))
RecordTraceError(err, serviceName, span) ==
    spans' = [spans EXCEPT ![span].calls = @ \o
                <<SpanCall("RecordError", "", "", <<>>, err),
                  SpanCall("SetStatus", "Error", ErrorText(err), <<>>, Nil),
                  SpanCall("AddEvent", "", serviceName,
                           <<KeyValue("error", ErrorText(err))>>, Nil)>>]

\* Mutant of RecordTraceSuccessful: the helper of the earlier revision
\* (utils.go 107-111), whose event is named "<service> successfull".
RecordTraceSuccessfull(serviceName, span) ==
    spans' = [spans EXCEPT ![span].calls = @ \o
                <<SpanCall("SetStatus", "Ok", "OK", <<>>, Nil),
                  SpanCall("AddEvent", "", serviceName \o " successfull", <<>>, Nil)>>]

\* span.SetStatus(codes.Ok, "OK"); span.AddEvent(serviceName + " successful")
RecordTraceSuccessful(serviceName, span) ==
    spans' = [spans EXCEPT ![span].calls = @ \o
                <<SpanCall("SetStatus", "Ok", "OK", <<>>, Nil),
                  SpanCall("AddEvent", "", serviceName \o " successful", <<>>, Nil)>>]

\* One call of an outcome helper; before: the calls the span had already.
OutcomeCall(op, span, serviceName, err) ==
    [op |-> op, span |-> span, serviceName |-> serviceName, err |-> err,
     before |-> Len(spans[span].calls)]

CallRecordTraceError ==
    /\ Len(outcomeCalls) < MaxOutcomes
    /\ \E sp \in DOMAIN spans, svc \in ServiceNames, e \in SpanErrors :
          /\ RecordTraceError(e, svc, sp)
          /\ outcomeCalls' = Append(outcomeCalls,
                                    OutcomeCall("RecordTraceError", sp, svc, e))
    /\ UNCHANGED <<lifecycleVars, handlerVars, sinkVars, metricVars>>

CallRecordTraceSuccessful ==
    /\ Len(outcomeCalls) < MaxOutcomes
    /\ \E sp \in DOMAIN spans, svc \in ServiceNames :
          /\ RecordTraceSuccessful(svc, sp)
          /\ outcomeCalls' = Append(outcomeCalls,
                                    OutcomeCall("RecordTraceSuccessful", sp, svc, Nil))
    /\ UNCHANGED <<lifecycleVars, handlerVars, sinkVars, metricVars>>

Init == InitLifecycle /\ InitHandlers /\ InitRecorder /\ InitSpans

NextLog ==
    \/ DeriveWithAttrs
    \/ DeriveWithGroup
    \/ HandleRecord

SpecLog == Init /\ [][NextLog]_vars

Next ==
    \/ SetupLogger
    \/ SetupMeter
    \/ SetupTracer
    \/ ShutdownLogger
    \/ ShutdownMeter
    \/ ShutdownTracer

Spec == Init /\ [][Next]_vars

\* One Setup call and one Shutdown call on the same manager, from two
\* goroutines.
NextRace ==
    \/ SetupLoggerRacing
    \/ SetupMeter
    \/ SetupTracer
    \/ ShutdownLoggerRacing
    \/ ShutdownMeterRacing
    \/ ShutdownTracerRacing

SpecRace == Init /\ [][NextRace]_vars

\* The calls on one metrics recorder.
NextMetrics ==
    \/ CallRecordAcceptedRequest
    \/ CallRecordFailedRequest
    \/ CallRecordLatency

SpecMetrics == Init /\ [][NextMetrics]_vars

\* Spans are started and marked with their outcome.
NextSpans ==
    \/ StartSpan
    \/ CallRecordTraceError
    \/ CallRecordTraceSuccessful

SpecSpans == Init /\ [][NextSpans]_vars

(***************************************************************************)
(* Properties of the lifecycle manager                                     *)
(***************************************************************************)
LastOp == IF opLog = <<>> THEN "none" ELSE opLog[Len(opLog)]

\* The last call on the manager was a Setup, and it has returned.
SetupReturned == LastOp = "Setup" /\ setupPc = "idle"

\* The last call on the manager was a Shutdown, and it has returned.
ShutdownReturned == LastOp = "Shutdown" /\ shutdownPc = "idle"

LiveStages == {s \in StageSet : Live(o[s])}

\* C2: Setup runs the initializers in the order logger, meter, tracer; a
\* failing initializer is the last one invoked and its error is what Setup
\* returns; Setup returns nil only when all three initializers succeeded.
C2_SetupOrderAndAbort ==
    /\ Len(setupInits) <= 3
    /\ \A i \in DOMAIN setupInits :
          /\ setupInits[i].stage = Stages[i]
          /\ i < Len(setupInits) => setupInits[i].err = Nil
          /\ setupInits[i].err # Nil => setupInits[i].err \in InitErrors(Stages[i])
    /\ setupPc # "idle" =>
          \A i \in DOMAIN setupInits : setupInits[i].err = Nil
    /\ SetupReturned =>
          /\ setupInits # <<>>
          /\ setupRet = setupInits[Len(setupInits)].err
          /\ setupRet = Nil <=>
                (Len(setupInits) = 3 /\ \A i \in 1..3 : setupInits[i].prov # 0)

\* C2 witness: a Setup call returned the meter initializer's error.
C2_Witness ==
    /\ SetupReturned
    /\ Len(setupInits) = 2
    /\ setupRet \in InitErrors("meter")

\* C3 (as claimed): once Setup has returned and Shutdown has not been called,
\* either all three providers are live or none is, and a failed Setup has
\* torn down every provider it had initialized.
C3_AllOrNoneAfterSetup ==
    (SetupReturned /\ NumCalls("Shutdown") = 0) =>
        /\ LiveStages = StageSet \/ LiveStages = {}
        /\ setupRet # Nil =>
              \A i \in DOMAIN setupInits :
                  setupInits[i].prov # 0 => providers[setupInits[i].prov].stopped

\* C4 (as claimed): after Setup failed at stage k the manager holds no live
\* provider of a stage >= k, and Shutdown never dereferences a nil handle.
C4_FailedSetupLeavesNoLaterStageLive ==
    /\ ~panicked
    /\ (SetupReturned /\ setupRet # Nil) =>
          \A j \in Len(setupInits)..3 : ~Live(o[Stages[j]])

RECURSIVE FailMsgs(_)
FailMsgs(calls) ==
    IF calls = <<>> THEN <<>>
    ELSE (IF Head(calls).err.kind = "nil" THEN <<>> ELSE Head(calls).err.msgs)
         \o FailMsgs(Tail(calls))

\* C5: a Shutdown after a successful Setup invokes the shutdown of the
\* logger, the meter and the tracer provider, in that order, whichever of
\* them fail; the error returned carries the error of every failing stage,
\* in order; it is nil exactly when no stage failed.
C5_ShutdownAttemptsAllAndAggregates ==
    (succeeded /\ LastOp = "Shutdown") =>
        /\ Len(shutdownCalls) = (CASE shutdownPc = "meter" -> 1
                                   [] shutdownPc = "tracer" -> 2
                                   [] shutdownPc = "idle" -> 3)
        /\ \A i \in DOMAIN shutdownCalls :
              /\ shutdownCalls[i].stage = Stages[i]
              /\ shutdownCalls[i].prov = o[Stages[i]]
        /\ shutdownPc = "idle" =>
              /\ shutdownRet.msgs = FailMsgs(shutdownCalls)
              /\ shutdownRet = Nil <=>
                    \A i \in 1..3 : shutdownCalls[i].err = Nil

\* C5 witness: a Shutdown after a successful Setup returned with the logger
\* and the tracer stage failing and the meter stage succeeding.
C5_Witness ==
    /\ succeeded
    /\ ShutdownReturned
    /\ Len(shutdownCalls) = 3
    /\ shutdownCalls[1].err # Nil
    /\ shutdownCalls[2].err = Nil
    /\ shutdownCalls[3].err # Nil

\* C6 (as claimed): the second of two consecutive Shutdown calls invokes no
\* provider's shutdown and returns nil; no provider is shut down twice.
C6_SecondShutdownIsNoOp ==
    /\ \A p \in DOMAIN providers : providers[p].shutdowns <= 1
    /\ (ShutdownReturned /\ Len(opLog) >= 2 /\ opLog[Len(opLog) - 1] = "Shutdown") =>
          /\ shutdownCalls = <<>>
          /\ shutdownRet = Nil

(***************************************************************************)
(* Properties of the slog bridge                                           *)
(***************************************************************************)
HandlerAttrs(h) == SliceElems(arrays, handlers[h].attrs)

\* What the derivation chain of handler h accumulates, oldest first.
RECURSIVE ChainAttrs(_)
ChainAttrs(h) ==
    CASE derived[h].op = "New"       -> <<>>
      [] derived[h].op = "WithAttrs" -> ChainAttrs(derived[h].parent) \o derived[h].attrs
      [] derived[h].op = "WithGroup" -> ChainAttrs(derived[h].parent)

\* The name of the most recent WithGroup in the derivation chain of h.
RECURSIVE ChainGroup(_)
ChainGroup(h) ==
    CASE derived[h].op = "New"       -> ""
      [] derived[h].op = "WithAttrs" -> ChainGroup(derived[h].parent)
      [] derived[h].op = "WithGroup" -> derived[h].name

Count(kvs, k) == Cardinality({i \in DOMAIN kvs : kvs[i].key = k})

Handled == lastCall.h # 0

\* The calls Handle has returned from.
NumHandled == clock \div 2

\* C1: no step (in particular no WithAttrs or WithGroup, on whatever handler)
\* changes what an existing handler emits for any record, nor its group; a
\* handler's attributes and group are those of its own derivation chain.
C1_DerivationLeavesHandlersAlone ==
    /\ [](\A h \in DOMAIN handlers :
            /\ HandlerAttrs(h) = ChainAttrs(h)
            /\ handlers[h].group = ChainGroup(h))
    /\ [][\/ UNCHANGED <<handlers, arrays>>
          \/ \A h \in DOMAIN handlers :
                /\ handlers'[h].group = handlers[h].group
                /\ \A in \in HandleInputs :
                      MergedAttrs(handlers'[h], arrays', in)
                          = MergedAttrs(handlers[h], arrays, in)]_vars

\* C1 witness: handler 2 has a group, handler 3 derived from it has
\* attributes, and a record handled through the root handler 1 carries
\* neither.
C1_Witness ==
    /\ Len(handlers) = 3
    /\ derived[2].op = "WithGroup" /\ derived[2].parent = 1 /\ derived[2].name = "g1"
    /\ derived[3].op = "WithAttrs" /\ derived[3].parent = 2
    /\ Handled /\ lastCall.h = 1 /\ lastCall.attrs = <<>>
    /\ ~lastCall.caller.ok /\ lastEmit.attrs = <<>>

\* C7: the n-th Handle call makes the (2n-1)-th sink call, an Emit on the
\* remote sink, and the 2n-th, a Log on the local sink, both for the record
\* of that call: each sink sees every record once, in call order, the remote
\* sink first.
C7_OneEmitThenOneLogPerHandle ==
    /\ Len(sinkLog) = 2 * NumHandled
    /\ \A n \in 1..NumHandled :
          /\ sinkLog[2 * n - 1] = [sink |-> "remote", time |-> 2 * n - 1]
          /\ sinkLog[2 * n] = [sink |-> "local", time |-> 2 * n - 1]
    /\ Handled =>
          /\ lastCall.time = 2 * NumHandled - 1
          /\ lastEmit.timestamp = lastCall.time
          /\ lastEmit.body = lastCall.msg
          /\ lastLog.msg = lastCall.msg
          /\ lastLog.level = lastCall.level
          /\ Len(lastLog.args) = 2 * Len(lastEmit.attrs)

\* C7 witness: two records have been handled.
C7_Witness == NumHandled = 2 /\ Len(sinkLog) = 4 /\ lastCall.time = 3

\* C8 (as claimed): without a recording span the record has no attribute
\* with key trace_id or span_id; with one it has exactly one of each, with
\* the span's identifiers as values.
C8_TraceKeysOnlyFromSpan ==
    Handled =>
        IF IsRecording(lastCall.ctx)
        THEN /\ Count(lastEmit.attrs, "trace_id") = 1
             /\ Count(lastEmit.attrs, "span_id") = 1
             /\ \A i \in DOMAIN lastEmit.attrs :
                   /\ lastEmit.attrs[i].key = "trace_id" =>
                         lastEmit.attrs[i].value = HexString(lastCall.ctx.traceID)
                   /\ lastEmit.attrs[i].key = "span_id" =>
                         lastEmit.attrs[i].value = HexString(lastCall.ctx.spanID)
        ELSE /\ Count(lastEmit.attrs, "trace_id") = 0
             /\ Count(lastEmit.attrs, "span_id") = 0

\* C8 (amended): Handle adds no trace_id or span_id attribute without a
\* recording span, and exactly one of each with one, placed after the
\* accumulated, record and group attributes, with the span's identifiers in
\* hexadecimal; attributes the handler or the record supply under these keys
\* are kept beside them.
C8_SpanAddsOnePair ==
    Handled =>
        LET user == HandlerAttrs(lastCall.h) \o lastCall.attrs
            base == Len(user) + (IF handlers[lastCall.h].group # "" THEN 1 ELSE 0)
            add == IF lastCall.ctx.present /\ lastCall.ctx.recording THEN 1 ELSE 0
        IN
        /\ Count(lastEmit.attrs, "trace_id") = Count(user, "trace_id") + add
        /\ Count(lastEmit.attrs, "span_id") = Count(user, "span_id") + add
        /\ add = 1 =>
              /\ lastEmit.attrs[base + 1] = [key |-> "trace_id", value |-> "01ab"]
              /\ lastEmit.attrs[base + 2] = [key |-> "span_id", value |-> "ff"]

\* C8 witness: a record that has a span_id attribute of its own is handled
\* under a recording span, through a handler that accumulated a trace_id.
C8_Witness ==
    /\ Handled
    /\ lastCall.ctx.recording
    /\ Count(lastCall.attrs, "span_id") = 1
    /\ Count(HandlerAttrs(lastCall.h), "trace_id") = 1
    /\ Count(lastEmit.attrs, "span_id") = 2
    /\ Count(lastEmit.attrs, "trace_id") = 2

\* C9: a handler made by WithAttrs holds its parent's attributes followed by
\* the new ones, every element kept; Handle emits the accumulated
\* attributes first, in order, then the record's, to both sinks.
C9_WithAttrsConcatenates ==
    /\ \A h \in DOMAIN handlers :
          derived[h].op = "WithAttrs" =>
              HandlerAttrs(h) = HandlerAttrs(derived[h].parent) \o derived[h].attrs
    /\ Handled =>
          LET acc == HandlerAttrs(lastCall.h)
              all == acc \o lastCall.attrs
          IN
          /\ Len(lastEmit.attrs) >= Len(all)
          /\ \A i \in DOMAIN all :
                /\ lastEmit.attrs[i].key = all[i].key
                /\ lastEmit.attrs[i].value =
                      (IF all[i].value.kind = "int"
                       THEN ToString(all[i].value.n) ELSE all[i].value.s)
                /\ lastLog.args[2 * i - 1] = String(all[i].key)
                /\ lastLog.args[2 * i] = all[i].value

\* C9 witness: a handler twice derived with WithAttrs, holding the key k
\* twice, has handled a record with attributes of its own.
C9_Witness ==
    /\ Len(handlers) = 3
    /\ derived[2].op = "WithAttrs" /\ derived[2].parent = 1
    /\ derived[3].op = "WithAttrs" /\ derived[3].parent = 2
    /\ Count(HandlerAttrs(3), "k") = 2
    /\ Handled /\ lastCall.h = 3 /\ lastCall.attrs # <<>>

\* C10: a handler made by WithGroup(name) has the group name and its
\* parent's attributes; a handled record has the group attribute Handle adds
\* exactly when the handler's group is not empty, once, right after the
\* accumulated and record attributes, naming the most recent WithGroup of
\* the handler's derivation chain.
C10_WithGroupReplaces ==
    /\ \A h \in DOMAIN handlers :
          /\ derived[h].op = "WithGroup" =>
                /\ handlers[h].group = derived[h].name
                /\ HandlerAttrs(h) = HandlerAttrs(derived[h].parent)
          /\ handlers[h].group = ChainGroup(h)
    /\ Handled =>
          LET user == HandlerAttrs(lastCall.h) \o lastCall.attrs
              g == ChainGroup(lastCall.h)
          IN
          /\ Count(lastEmit.attrs, "group")
                = Count(user, "group") + (IF g = "" THEN 0 ELSE 1)
          /\ g # "" => lastEmit.attrs[Len(user) + 1] = [key |-> "group", value |-> g]

\* C10 witness: a record handled through a handler whose chain is
\* WithGroup("g1") then WithGroup("g2") carries group = g2 once.
C10_Witness ==
    /\ Len(handlers) = 3
    /\ derived[2].op = "WithGroup" /\ derived[2].name = "g1" /\ derived[2].parent = 1
    /\ derived[3].op = "WithGroup" /\ derived[3].name = "g2" /\ derived[3].parent = 2
    /\ Handled /\ lastCall.h = 3
    /\ Count(lastEmit.attrs, "group") = 1

\* C11: whatever became of the record given to the remote sink, the call
\* that follows it is the local logger's, for the same record, level and
\* message, and Handle returns nil.
C11_EmitFailureIsSwallowed ==
    Handled =>
        /\ lastRet = Nil
        /\ Len(sinkLog) >= 2
        /\ sinkLog[Len(sinkLog) - 1] = [sink |-> "remote", time |-> lastCall.time]
        /\ sinkLog[Len(sinkLog)] = [sink |-> "local", time |-> lastCall.time]
        /\ lastLog.msg = lastCall.msg
        /\ lastLog.level = lastCall.level
        /\ Len(lastLog.args) = 2 * Len(lastEmit.attrs)

\* C11 witness: the remote sink lost an Error record, and the local logger
\* was given it.
C11_Witness ==
    /\ Handled
    /\ lastCall.emit = "failed"
    /\ lastCall.level = LevelError
    /\ lastLog.level = LevelError
    /\ sinkLog[Len(sinkLog)].sink = "local"
    /\ lastRet = Nil

\* C14: the remote severity is Debug, Warn or Error for the level of the
\* same name and Info for every other level; the severity text is the name
\* of that severity; whatever the level, the record is emitted with its
\* message and Handle returns nil.
C14_SeverityMappingIsTotal ==
    Handled =>
        LET l == lastCall.level
            sev == IF l = -4 THEN 5
                   ELSE IF l = 4 THEN 13
                   ELSE IF l = 8 THEN 17
                   ELSE 9
        IN
        /\ lastEmit.severity = sev
        /\ lastEmit.severityText =
               (IF sev = 5 THEN "DEBUG"
                ELSE IF sev = 13 THEN "WARN"
                ELSE IF sev = 17 THEN "ERROR"
                ELSE "INFO")
        /\ lastEmit.body = lastCall.msg
        /\ lastEmit.timestamp = lastCall.time
        /\ sinkLog[Len(sinkLog) - 1] = [sink |-> "remote", time |-> lastCall.time]
        /\ lastRet = Nil

\* C14 witness: a record of a level above Error, which slog has no name
\* for, was emitted as Info.
C14_Witness ==
    /\ Handled
    /\ lastCall.level = 12
    /\ lastEmit.severity = SeverityInfo
    /\ lastEmit.severityText = "INFO"
    /\ lastRet = Nil

\* The keys of the remote record's attributes, in order.
RemoteKeys == [i \in 1..Len(lastEmit.attrs) |-> lastEmit.attrs[i].key]

\* The keys among the arguments of the local logger: slog reads its
\* arguments as key, value, key, value, ...
LocalKeys == [i \in 1..(Len(lastLog.args) \div 2) |-> lastLog.args[2 * i - 1].s]

\* The keys Handle is to attach for the last call: the handler's
\* accumulated keys, the record's, group, trace_id and span_id, source.
ExpectedKeys ==
    LET user == ChainAttrs(lastCall.h) \o lastCall.attrs
    IN
    [i \in 1..Len(user) |-> user[i].key]
        \o (IF ChainGroup(lastCall.h) # "" THEN <<"group">> ELSE <<>>)
        \o (IF lastCall.ctx.present /\ lastCall.ctx.recording
            THEN <<"trace_id", "span_id">> ELSE <<>>)
        \o (IF lastCall.caller.ok THEN <<"source">> ELSE <<>>)

\* C17: the local logger is given the same keys, in the same order, as the
\* remote record holds: accumulated, record, group, trace_id and span_id,
\* source.
C17_BothSinksSameKeys ==
    Handled =>
        /\ Len(lastLog.args) = 2 * Len(lastEmit.attrs)
        /\ \A i \in 1..Len(lastLog.args) :
              (i % 2 = 1) => lastLog.args[i].kind = "string"
        /\ LocalKeys = RemoteKeys
        /\ RemoteKeys = ExpectedKeys

\* C17 witness: a handler with a group handles a record under a recording
\* span, and both sinks are given group, trace_id and span_id.
C17_Witness ==
    /\ Handled
    /\ lastCall.ctx.recording
    /\ handlers[lastCall.h].group # ""
    /\ \E i \in DOMAIN LocalKeys :
          /\ LocalKeys[i] = "group"
          /\ LocalKeys[i + 1] = "trace_id"
          /\ LocalKeys[i + 2] = "span_id"
          /\ RemoteKeys[i] = "group"
          /\ RemoteKeys[i + 1] = "trace_id"

\* The stages of the providers that were created and are not shut down.
LiveProviders == {providers[p].kind : p \in {q \in DOMAIN providers : ~providers[q].stopped}}

\* C12 (as claimed): when one Setup call and one Shutdown call on the same
\* manager have both returned, the providers that are initialized and not
\* shut down are all three or none.  Stated for the calls in which Setup
\* returns nil: run one after the other, in either order, such calls leave
\* all three or none, so only an interleaving can break it.
C12_RacingSetupShutdownAllOrNone ==
    (/\ NumCalls("Setup") = 1
     /\ NumCalls("Shutdown") = 1
     /\ setupPc = "idle"
     /\ shutdownPc = "idle"
     /\ setupRet = Nil)
    => (LiveProviders = StageSet \/ LiveProviders = {})

\* C13 (as claimed): once a Setup call has returned an error, and once a
\* Shutdown call has been made, the manager never again holds three live
\* providers.
C13_FailedInitIsTerminal ==
    /\ failedInit => LiveStages # StageSet
    /\ NumCalls("Shutdown") > 0 => LiveStages # StageSet

(***************************************************************************)
(* Properties of the metrics recorder and of the span helpers              *)
(***************************************************************************)
RECURSIVE Total(_, _)
Total(counter, sets) ==
    IF sets = {} THEN 0
    ELSE LET a == CHOOSE x \in sets : TRUE
         IN counter[a] + Total(counter, sets \ {a})

\* The calls of one method made on the recorder so far.
CallsOf(op) == {i \in DOMAIN metricCalls : metricCalls[i].op = op}

\* Those of them whose attributes come to the set a.
CallsWith(op, a) == {i \in CallsOf(op) : AttrSetOf(metricCalls[i].attributes) = a}

\* C15: the accepted counter holds as many as RecordAcceptedRequest was
\* called, the failed counter as many as RecordFailedRequest was called,
\* the histogram one value per RecordLatency call; each call is counted
\* under its own attributes and under no others.
C15_CountersMatchCalls ==
    /\ Total(acceptedRequests, MetricAttrSets) = Cardinality(CallsOf("RecordAcceptedRequest"))
    /\ Total(failedRequests, MetricAttrSets) = Cardinality(CallsOf("RecordFailedRequest"))
    /\ \A a \in MetricAttrSets :
          /\ acceptedRequests[a] = Cardinality(CallsWith("RecordAcceptedRequest", a))
          /\ failedRequests[a] = Cardinality(CallsWith("RecordFailedRequest", a))
          /\ Len(latency[a]) = Cardinality(CallsWith("RecordLatency", a))

\* C15 witness: an accepted request with a route, then a failed request
\* and an accepted request without attributes: each is counted under its
\* own attributes.
C15_Witness ==
    /\ Len(metricCalls) = 3
    /\ metricCalls[1] = MetricCall("RecordAcceptedRequest", 0,
                                   <<[key |-> "route", value |-> "/a"]>>)
    /\ metricCalls[2] = MetricCall("RecordFailedRequest", 0, <<>>)
    /\ metricCalls[3] = MetricCall("RecordAcceptedRequest", 0, <<>>)
    /\ acceptedRequests[{[key |-> "route", value |-> "/a"]}] = 1
    /\ acceptedRequests[{}] = 1
    /\ failedRequests[{}] = 1
    /\ failedRequests[{[key |-> "route", value |-> "/a"]}] = 0

\* The calls that the i-th outcome helper call made on its span.
CallsMadeBy(i) ==
    LET c == outcomeCalls[i]
        later == {j \in DOMAIN outcomeCalls : j > i /\ outcomeCalls[j].span = c.span}
        upto == IF later = {} THEN Len(spans[c.span].calls)
                ELSE outcomeCalls[CHOOSE j \in later : \A k \in later : j <= k].before
    IN SubSeq(spans[c.span].calls, c.before + 1, upto)

Methods(calls, m) == {j \in DOMAIN calls : calls[j].method = m}

\* C16: every outcome helper call sets the status of its span once and adds
\* one event to it: RecordTraceSuccessful sets Ok and adds the event
\* "<service> successful"; RecordTraceError records the error, sets Error
\* with the error's message, and adds one event whose attribute error is
\* that message.
C16_OneStatusOneEventPerOutcome ==
    \A i \in DOMAIN outcomeCalls :
        LET c == outcomeCalls[i]
            made == CallsMadeBy(i)
            status == {made[j] : j \in Methods(made, "SetStatus")}
            events == {made[j] : j \in Methods(made, "AddEvent")}
            errors == {made[j] : j \in Methods(made, "RecordError")}
        IN
        /\ Cardinality(Methods(made, "SetStatus")) = 1
        /\ Cardinality(Methods(made, "AddEvent")) = 1
        /\ c.op = "RecordTraceSuccessful" =>
              /\ errors = {}
              /\ \A st \in status : st.code = "Ok"
              /\ \A ev \in events : ev.text = c.serviceName \o " successful" /\ ev.attrs = <<>>
        /\ c.op = "RecordTraceError" =>
              /\ Cardinality(Methods(made, "RecordError")) = 1
              /\ \A er \in errors : er.err = c.err
              /\ \A st \in status : st.code = "Error" /\ st.text = ErrorText(c.err)
              /\ \A ev \in events :
                    /\ ev.attrs = <<[key |-> "error", value |-> ErrorText(c.err)]>>
                    /\ c.err = Err("boom") => ev.attrs[1].value = "boom"
              /\ made[Len(made)].method = "AddEvent"
              /\ made[1].method = "RecordError"

\* C16 witness: one span was marked successful and another was marked with
\* the error "boom".
C16_Witness ==
    /\ Len(outcomeCalls) = 2
    /\ outcomeCalls[1].op = "RecordTraceSuccessful"
    /\ outcomeCalls[1].serviceName = "billing"
    /\ outcomeCalls[2].op = "RecordTraceError"
    /\ outcomeCalls[2].err = Err("boom")
    /\ outcomeCalls[2].span # outcomeCalls[1].span
    /\ spans[outcomeCalls[1].span].calls =
          <<SpanCall("SetStatus", "Ok", "OK", <<>>, Nil),
            SpanCall("AddEvent", "", "billing successful", <<>>, Nil)>>
    /\ Len(spans[outcomeCalls[2].span].calls) = 3
    /\ spans[outcomeCalls[2].span].calls[2].text = "boom"

====
